---- MODULE Spec2Model ----
(***************************************************************************)
(* A model of the data-processing pipeline of garthmortensen/garch:        *)
(*   src/generalized_timeseries/data_processor.py  (stages, resolvers)     *)
(*   src/prototype/data_generator.py               (PriceSeriesGenerator)  *)
(*   src/src/run_pipeline.py                       (the orchestrator)      *)
(*                                                                         *)
(* Strings the code inspects (strategy names) are sequences of one-letter  *)
(* strings, so that str.lower() is computed and not assumed.  Tables are   *)
(* records [index, columns, dtypes, cells]; a cell is an integer or one of *)
(* NaN, PInf, NInf.                                                        *)
(***************************************************************************)
EXTENDS Integers, Sequences, FiniteSets, TLC

VARIABLES pc, op, args, df, result, created, log, reads, run

vars == <<pc, op, args, df, result, created, log, reads, run>>

(***************************************************************************)
(* Strings and str.lower()                                                 *)
(***************************************************************************)
LowerLetters ==
  <<"a","b","c","d","e","f","g","h","i","j","k","l","m",
    "n","o","p","q","r","s","t","u","v","w","x","y","z">>

UpperLetters ==
  <<"A","B","C","D","E","F","G","H","I","J","K","L","M",
    "N","O","P","Q","R","S","T","U","V","W","X","Y","Z">>

LetterAt(letters, ch, other) ==
  IF \E i \in 1..Len(other) : other[i] = ch
    THEN letters[CHOOSE i \in 1..Len(other) : other[i] = ch]
    ELSE ch

\* one character of str.lower(): an upper-case letter becomes its lower-case
\* letter, every other character is kept
LowerChar(ch) == LetterAt(LowerLetters, ch, UpperLetters)

UpperChar(ch) == LetterAt(UpperLetters, ch, LowerLetters)

\* str.lower()
Lower(s) == [i \in 1..Len(s) |-> LowerChar(s[i])]

\* the string s with the positions of mask in upper case
Cased(s, mask) == [i \in 1..Len(s) |-> IF i \in mask THEN UpperChar(s[i]) ELSE s[i]]

(***************************************************************************)
(* The strategy names the resolvers compare against                        *)
(***************************************************************************)
StrDrop == <<"d","r","o","p">>

StrForwardFill == <<"f","o","r","w","a","r","d","_","f","i","l","l">>

StrStandardize == <<"s","t","a","n","d","a","r","d","i","z","e">>

StrMinmax == <<"m","i","n","m","a","x">>

StrTransform ==
  <<"t","r","a","n","s","f","o","r","m","_","t","o","_",
    "s","t","a","t","i","o","n","a","r","y","_",
    "r","e","t","u","r","n","s">>

StrTestStationarity ==
  <<"t","e","s","t","_","s","t","a","t","i","o","n","a","r","i","t","y">>

StrLogStationarity ==
  <<"l","o","g","_","s","t","a","t","i","o","n","a","r","i","t","y">>

StrDifference == <<"d","i","f","f","e","r","e","n","c","e">>

StrAdf == <<"a","d","f">>

\* the names each resolver enumerates
Enumerated(factory) ==
  CASE factory = "MissingDataHandlerFactory" -> {StrDrop, StrForwardFill}
    [] factory = "DataScalerFactory" -> {StrStandardize, StrMinmax}
    [] factory = "StationaryReturnsProcessorFactory" ->
         {StrTransform, StrTestStationarity, StrLogStationarity}

Factories ==
  {"MissingDataHandlerFactory", "DataScalerFactory",
   "StationaryReturnsProcessorFactory"}

AllNames == UNION {Enumerated(f) : f \in Factories} \cup {StrDifference, StrAdf}

\* letter-case variants of a name: as written, all upper case, and each single
\* position in upper case
CaseVariants(s) ==
  {Cased(s, m) : m \in {{}, 1..Len(s)} \cup {{i} : i \in 1..Len(s)}}

\* strings that are no name: the empty string, a name cut short or extended,
\* and a name with a separator changed
NearMisses(s) ==
  {SubSeq(s, 1, Len(s) - 1), s \o <<" ">>, <<" ">> \o s, s \o <<"s">>,
   [i \in 1..Len(s) |-> IF s[i] = "_" THEN "-" ELSE IF i = 1 THEN "x" ELSE s[i]]}

StrategyInputs ==
  UNION {CaseVariants(s) : s \in AllNames}
    \cup UNION {NearMisses(s) : s \in AllNames}
    \cup {<<>>}

(***************************************************************************)
(* Results of a call, exceptions, log records                              *)
(***************************************************************************)
NoValue == [tag |-> "None"]

Return(v) == [kind |-> "return", value |-> v]

\* raise ValueError(f"<prefix>{arg}")
RaiseValueError(prefix, arg) ==
  [kind |-> "raise",
   value |-> [tag |-> "exception", type |-> "ValueError", prefix |-> prefix, arg |-> arg]]

NoResult == [kind |-> "none", value |-> NoValue]

BoundMethod(cls, name) == [tag |-> "method", cls |-> cls, name |-> name]

Instance(cls) == [tag |-> "object", cls |-> cls]

LogLine(level, what) == [level |-> level, what |-> what]

(***************************************************************************)
(* The resolvers.  Each yields [res, created, log]: the result of the call,*)
(* the objects it constructed and the log lines it wrote.                  *)
(***************************************************************************)
Outcome(res, objs, lines) == [res |-> res, created |-> objs, log |-> lines]

\* a mutant of MissingCreateHandler: an unknown strategy falls back to drop_na
MissingCreateHandlerDefault(strategy) ==
  Outcome(
    IF Lower(strategy) = StrForwardFill
      THEN Return(BoundMethod("MissingDataHandler", "forward_fill"))
      ELSE Return(BoundMethod("MissingDataHandler", "drop_na")),
    <<"MissingDataHandler">>,
    <<LogLine("info", "banner"), LogLine("info", "creating")>>)

\* MissingDataHandlerFactory.create_handler
MissingCreateHandler(strategy) ==
  Outcome(
    IF Lower(strategy) = StrDrop
      THEN Return(BoundMethod("MissingDataHandler", "drop_na"))
    ELSE IF Lower(strategy) = StrForwardFill
      THEN Return(BoundMethod("MissingDataHandler", "forward_fill"))
    ELSE RaiseValueError("Unknown missing data strategy: ", strategy),
    <<"MissingDataHandler">>,
    <<LogLine("info", "banner"), LogLine("info", "creating")>>)

\* DataScalerFactory.create_handler
ScalerCreateHandler(strategy) ==
  Outcome(
    IF Lower(strategy) = StrStandardize
      THEN Return(BoundMethod("DataScaler", "scale_data_standardize"))
    ELSE IF Lower(strategy) = StrMinmax
      THEN Return(BoundMethod("DataScaler", "scale_data_minmax"))
    ELSE RaiseValueError("Unknown data scaling strategy: ", strategy),
    <<"DataScaler">>,
    <<LogLine("info", "creating")>>)

\* StationaryReturnsProcessorFactory.create_handler: every enumerated name
\* yields the processor object itself
StationaryCreateHandler(strategy) ==
  Outcome(
    IF Lower(strategy) = StrTransform
      THEN Return(Instance("StationaryReturnsProcessor"))
    ELSE IF Lower(strategy) = StrTestStationarity
      THEN Return(Instance("StationaryReturnsProcessor"))
    ELSE IF Lower(strategy) = StrLogStationarity
      THEN Return(Instance("StationaryReturnsProcessor"))
    ELSE RaiseValueError("Unknown stationary returns processing strategy: ", strategy),
    <<"StationaryReturnsProcessor">>,
    <<LogLine("info", "creating")>>)

CreateHandler(factory, strategy) ==
  CASE factory = "MissingDataHandlerFactory" -> MissingCreateHandler(strategy)
    [] factory = "DataScalerFactory" -> ScalerCreateHandler(strategy)
    [] factory = "StationaryReturnsProcessorFactory" -> StationaryCreateHandler(strategy)

(***************************************************************************)
(* Specification of the resolvers: one call of one resolver                *)
(***************************************************************************)
NoTable == [index |-> <<>>, columns |-> <<>>, dtypes |-> <<>>, cells |-> <<>>]

NoRun == [stage |-> "none"]

InitResolvers ==
  /\ pc = "ready"
  /\ op = "none"
  /\ args \in [factory : Factories, strategy : StrategyInputs]
  /\ df = NoTable
  /\ result = NoResult
  /\ created = <<>>
  /\ log = <<>>
  /\ reads = {}
  /\ run = NoRun

\* the call factory.create_handler(strategy) on the drawn factory and string
CallCreateHandler ==
  /\ pc = "ready"
  /\ LET out == CreateHandler(args.factory, args.strategy)
     IN /\ result' = out.res
        /\ created' = out.created
        /\ log' = out.log
        /\ pc' = IF out.res.kind = "raise" THEN "raised" ELSE "returned"
  /\ op' = "create_handler"
  /\ UNCHANGED <<args, df, reads, run>>

NextResolvers == CallCreateHandler

SpecResolvers == InitResolvers /\ [][NextResolvers]_vars

\* s is the name n written in some letter case
SameIgnoringCase(s, n) ==
  /\ Len(s) = Len(n)
  /\ \A i \in 1..Len(n) : s[i] = n[i] \/ s[i] = UpperChar(n[i])

IsEnumerated(factory, s) == \E n \in Enumerated(factory) : SameIgnoringCase(s, n)

\* the transform the documentation of each resolver pairs with a name
MatchingTransform(factory, n) ==
  CASE n = StrDrop -> BoundMethod("MissingDataHandler", "drop_na")
    [] n = StrForwardFill -> BoundMethod("MissingDataHandler", "forward_fill")
    [] n = StrStandardize -> BoundMethod("DataScaler", "scale_data_standardize")
    [] n = StrMinmax -> BoundMethod("DataScaler", "scale_data_minmax")
    [] OTHER -> Instance("StationaryReturnsProcessor")

ResolverOutcomeIs(errorType) ==
  pc # "ready" =>
    /\ ~IsEnumerated(args.factory, args.strategy) =>
         /\ pc = "raised"
         /\ result.kind = "raise"
         /\ result.value.type = errorType
         /\ result.value.arg = args.strategy
    /\ \A n \in Enumerated(args.factory) :
         SameIgnoringCase(args.strategy, n) =>
           /\ pc = "returned"
           /\ result = Return(MatchingTransform(args.factory, n))

MaxRows == 3

MaxVal == 1

Num(n) == [k |-> "num", v |-> n]

NaN == [k |-> "nan", v |-> 0]

PInf == [k |-> "inf", v |-> 1]

NInf == [k |-> "inf", v |-> -1]

Str == [k |-> "str", v |-> 0]

\* pandas.isna of a cell
IsNa(c) == c.k = "nan"

\* numpy.isfinite of a numeric cell
IsFinite(c) == c.k = "num"

ColA == <<"a">>

ColB == <<"b">>

ColS == <<"s">>

\* f"{column}_diff"
DiffName(column) == column \o <<"_diff">>

\* a table: the row labels, the column names in order, the dtype of each
\* column and the cells of each column (cells[j][i] is row i of column j)
Table(index, columns, dtypes, cells) ==
  [index |-> index, columns |-> columns, dtypes |-> dtypes, cells |-> cells]

NRows(t) == Len(t.index)

NCols(t) == Len(t.columns)

\* data.select_dtypes(include=[np.number]).columns, as column positions
NumericColumns(t) == {j \in 1..NCols(t) : t.dtypes[j] = "float64"}

\* the position of the column called name (0 when there is none)
ColumnAt(t, name) ==
  IF \E j \in 1..NCols(t) : t.columns[j] = name
    THEN CHOOSE j \in 1..NCols(t) : t.columns[j] = name
    ELSE 0

ValuesA == {Num(v) : v \in 0..MaxVal} \cup {NaN, PInf}

ValuesB == {Num(0), Num(1), NaN}

\* an input table: two numeric series a and b over the same n rows, with or
\* without a third column s of strings
InputTable(n, a, b, withS) ==
  IF withS
    THEN Table([i \in 1..n |-> i], <<ColA, ColB, ColS>>,
               <<"float64", "float64", "object">>, <<a, b, [i \in 1..n |-> Str]>>)
    ELSE Table([i \in 1..n |-> i], <<ColA, ColB>>, <<"float64", "float64">>, <<a, b>>)

\* what a stage yields: the result of the call, the table object the caller
\* passed (after the call), the objects constructed, the log lines written
\* and the configuration fields read
StageOutcome(res, data, objs, lines, fields) ==
  [res |-> res, data |-> data, created |-> objs, log |-> lines, reads |-> fields]

\* a returned table; same tells whether it is the object the caller passed
TableValue(t, same) == [tag |-> "table", same |-> same, table |-> t]

\* the rows of t at the positions keep (an increasing sequence of positions)
TakeRows(t, keep) ==
  Table([i \in 1..Len(keep) |-> t.index[keep[i]]], t.columns, t.dtypes,
        [j \in 1..NCols(t) |-> [i \in 1..Len(keep) |-> t.cells[j][keep[i]]]])

RECURSIVE PositionsWhere(_, _, _)
\* the positions i..n that satisfy ok, in increasing order
PositionsWhere(ok, i, n) ==
  IF i > n THEN <<>>
  ELSE IF ok[i] THEN <<i>> \o PositionsWhere(ok, i + 1, n)
  ELSE PositionsWhere(ok, i + 1, n)

\* DataFrame.dropna(): the rows with no missing cell in any column
DropNa(t) ==
  TakeRows(t, PositionsWhere(
    [i \in 1..NRows(t) |-> \A j \in 1..NCols(t) : ~IsNa(t.cells[j][i])],
    1, NRows(t)))

RECURSIVE FFillFrom(_, _, _)
\* the forward scan of fillna(method="ffill") over one column from row i on,
\* last being the last valid cell seen (NaN when none was)
FFillFrom(col, i, last) ==
  IF i > Len(col) THEN <<>>
  ELSE IF IsNa(col[i]) THEN <<last>> \o FFillFrom(col, i + 1, last)
  ELSE <<col[i]>> \o FFillFrom(col, i + 1, col[i])

\* a mutant of FFillColumn: the scan is seeded with the first cell of the
\* column's valid cells and never advances
FFillColumnFirst(col) ==
  LET valid == {i \in 1..Len(col) : ~IsNa(col[i])}
      first == IF valid = {} THEN NaN
               ELSE col[CHOOSE i \in valid : \A k \in valid : i <= k]
  IN [i \in 1..Len(col) |->
        IF IsNa(col[i]) /\ \E k \in valid : k < i THEN first ELSE col[i]]

\* Series.fillna(method="ffill")
FFillColumn(col) == FFillFrom(col, 1, NaN)

\* DataFrame.fillna(method="ffill")
FFill(t) ==
  Table(t.index, t.columns, t.dtypes, [j \in 1..NCols(t) |-> FFillColumn(t.cells[j])])

\* MissingDataHandler.__init__
MissingDataHandlerInit == <<LogLine("info", "banner")>>

\* MissingDataHandler.drop_na
drop_na(data) ==
  StageOutcome(Return(TableValue(DropNa(data), FALSE)), data, <<>>,
    <<LogLine("info", "dropping"), LogLine("info", "df filled:"),
      LogLine("info", "head")>>, {})

\* MissingDataHandler.forward_fill
forward_fill(data) ==
  StageOutcome(Return(TableValue(FFill(data), FALSE)), data, <<>>,
    <<LogLine("info", "filling"), LogLine("info", "df filled:"),
      LogLine("info", "head")>>, {})

\* the call of a bound method a resolver returned
CallMethod(m, data) ==
  CASE m.name = "drop_na" -> drop_na(data)
    [] m.name = "forward_fill" -> forward_fill(data)

\* a mutant of fill_data: the strategy is resolved before the flag is tested
fill_data_resolve_first(table, config) ==
  LET made == MissingCreateHandler(config.strategy)
  IN IF made.res.kind = "raise"
       THEN StageOutcome(made.res, table, made.created, made.log,
                         {"enabled", "strategy"})
     ELSE IF ~config.enabled
       THEN StageOutcome(Return(TableValue(table, TRUE)), table, made.created,
                         made.log, {"enabled", "strategy"})
     ELSE LET done == CallMethod(made.res.value, table)
          IN StageOutcome(done.res, done.data, made.created,
                          made.log \o done.log, {"enabled", "strategy"})

\* fill_data(df, config), config being config.data_processor.handle_missing_values
fill_data(table, config) ==
  IF ~config.enabled
    THEN StageOutcome(Return(TableValue(table, TRUE)), table, <<>>,
                      <<LogLine("info", "skipping")>>, {"enabled"})
    ELSE LET made == MissingCreateHandler(config.strategy)
         IN IF made.res.kind = "raise"
              THEN StageOutcome(made.res, table, made.created,
                                <<LogLine("info", "processing")>> \o made.log,
                                {"enabled", "strategy"})
              ELSE LET done == CallMethod(made.res.value, table)
                   IN StageOutcome(done.res, done.data, made.created,
                        <<LogLine("info", "processing")>> \o made.log \o done.log,
                        {"enabled", "strategy"})

(***************************************************************************)
(* Specification of the missing-value stage: one call on a drawn table     *)
(***************************************************************************)
MissingStrategies ==
  {StrDrop, StrForwardFill, Cased(StrDrop, {1}), Cased(StrForwardFill, 1..12),
   StrMinmax, <<>>}

InitTable ==
  /\ pc = "ready"
  /\ op = "none"
  /\ \E n \in 0..MaxRows :
       \E a \in [1..n -> ValuesA], b \in [1..n -> ValuesB], withS \in BOOLEAN :
         df = InputTable(n, a, b, withS)
  /\ args = [table |-> df]
  /\ result = NoResult
  /\ created = <<>>
  /\ log = <<>>
  /\ reads = {}
  /\ run = NoRun

\* the state after a call that yielded out
Finish(name, inputs, out) ==
  /\ op' = name
  /\ args' = inputs
  /\ result' = out.res
  /\ df' = out.data
  /\ created' = out.created
  /\ log' = out.log
  /\ reads' = out.reads
  /\ pc' = IF out.res.kind = "raise" THEN "raised" ELSE "returned"
  /\ UNCHANGED run

CallDropNa ==
  /\ pc = "ready"
  /\ Finish("drop_na", args, drop_na(df))

CallForwardFill ==
  /\ pc = "ready"
  /\ Finish("forward_fill", args, forward_fill(df))

CallFillData ==
  /\ pc = "ready"
  /\ \E enabled \in BOOLEAN, strategy \in MissingStrategies :
       LET config == [enabled |-> enabled, strategy |-> strategy]
       IN Finish("fill_data", [table |-> df, config |-> config],
                 fill_data(df, config))

NextMissing == CallDropNa \/ CallForwardFill \/ CallFillData

SpecMissing == InitTable /\ [][NextMissing]_vars

\* the table a call returned
Returned == result.value.table

\* C5: forward_fill returns a table with the same rows and columns in which a
\* missing cell with an earlier non-missing cell in its column holds the most
\* recent such cell, a missing cell with none stays missing, and every other
\* cell is unchanged.
C5_ForwardFill ==
  (op = "forward_fill") =>
    /\ pc = "returned"
    /\ Returned.index = args.table.index
    /\ Returned.columns = args.table.columns
    /\ \A j \in 1..NCols(args.table) : \A i \in 1..NRows(args.table) :
         LET col == args.table.cells[j]
             earlier == {k \in 1..(i - 1) : ~IsNa(col[k])}
         IN IF ~IsNa(col[i]) THEN Returned.cells[j][i] = col[i]
            ELSE IF earlier = {} THEN IsNa(Returned.cells[j][i])
            ELSE \E k \in earlier :
                   /\ \A m \in earlier : m <= k
                   /\ Returned.cells[j][i] = col[k]

\* forward_fill returned a table in which one gap was filled from an earlier
\* cell that is not the first valid cell's value and one leading gap remains
C5_Witness ==
  /\ op = "forward_fill"
  /\ pc = "returned"
  /\ \E j \in 1..NCols(args.table) :
       /\ NRows(args.table) = 3
       /\ args.table.cells[j][1] = Num(0)
       /\ args.table.cells[j][2] = Num(1)
       /\ IsNa(args.table.cells[j][3])
       /\ Returned.cells[j][3] = Num(1)
  /\ \E j \in 1..NCols(args.table) :
       IsNa(args.table.cells[j][1]) /\ IsNa(Returned.cells[j][1])

\* C6: with handle_missing_values.enabled false, fill_data returns the very
\* table it was given, cells untouched (missing ones included), constructs no
\* handler and does not read the configured strategy.
C6_DisabledPassThrough ==
  (op = "fill_data" /\ ~args.config.enabled) =>
    /\ pc = "returned"
    /\ result.value.same
    /\ Returned = args.table
    /\ df = args.table
    /\ created = <<>>
    /\ "strategy" \notin reads

\* fill_data ran disabled on a table with a missing cell under a strategy
\* that names no handler
C6_Witness ==
  /\ op = "fill_data"
  /\ ~args.config.enabled
  /\ args.config.strategy = StrMinmax
  /\ \E j \in 1..NCols(args.table) : \E i \in 1..NRows(args.table) :
       IsNa(args.table.cells[j][i])
  /\ pc = "returned"

(***************************************************************************)
(* StationaryReturnsProcessor                                              *)
(***************************************************************************)
\* float subtraction x - y on cells
Sub(x, y) ==
  IF x.k = "nan" \/ y.k = "nan" THEN NaN
  ELSE IF x.k = "num" /\ y.k = "num" THEN Num(x.v - y.v)
  ELSE IF x.k = "inf" /\ y.k = "inf" THEN (IF x.v = y.v THEN NaN ELSE x)
  ELSE IF x.k = "inf" THEN x
  ELSE [k |-> "inf", v |-> 0 - y.v]

\* Series.diff(): the first row has no difference
DiffColumn(col) ==
  [i \in 1..Len(col) |-> IF i = 1 THEN NaN ELSE Sub(col[i], col[i - 1])]

\* data[name] = col: an existing column is replaced, a new one is appended
SetColumn(t, name, col) ==
  IF ColumnAt(t, name) # 0
    THEN Table(t.index, t.columns,
               [t.dtypes EXCEPT ![ColumnAt(t, name)] = "float64"],
               [t.cells EXCEPT ![ColumnAt(t, name)] = col])
    ELSE Table(t.index, Append(t.columns, name), Append(t.dtypes, "float64"),
               Append(t.cells, col))

RECURSIVE AddDiffs(_, _, _)
\* the loop of make_stationary over numeric_columns (positions j..last of the
\* columns found before the loop), updating the table in place
AddDiffs(t, numeric, j) ==
  IF j > Len(numeric) THEN t
  ELSE AddDiffs(
         SetColumn(t, DiffName(numeric[j]), DiffColumn(t.cells[ColumnAt(t, numeric[j])])),
         numeric, j + 1)

\* the names of the numeric columns, in column order
NumericNames(t) ==
  LET keep == PositionsWhere([j \in 1..NCols(t) |-> j \in NumericColumns(t)], 1, NCols(t))
  IN [i \in 1..Len(keep) |-> t.columns[keep[i]]]

\* a mutant of make_stationary: a method that is not "difference" is taken
\* for "difference"
make_stationary_any_method(data, method, config) ==
  IF ~config.enabled
    THEN StageOutcome(Return(TableValue(data, TRUE)), data, <<>>,
                      <<LogLine("info", "skipping")>>, {"enabled"})
    ELSE LET widened == AddDiffs(data, NumericNames(data), 1)
         IN StageOutcome(Return(TableValue(DropNa(widened), FALSE)), widened, <<>>,
              <<LogLine("info", "applying"), LogLine("info", "head")>>, {"enabled"})

\* a mutant of make_stationary: the rows with missing values are kept
make_stationary_keep_rows(data, method, config) ==
  IF ~config.enabled
    THEN StageOutcome(Return(TableValue(data, TRUE)), data, <<>>,
                      <<LogLine("info", "skipping")>>, {"enabled"})
  ELSE IF Lower(method) = StrDifference
    THEN LET widened == AddDiffs(data, NumericNames(data), 1)
         IN StageOutcome(Return(TableValue(widened, TRUE)), widened, <<>>,
              <<LogLine("info", "applying"), LogLine("info", "head")>>, {"enabled"})
  ELSE StageOutcome(RaiseValueError("Unknown make_stationary method: ", method),
                    data, <<>>, <<LogLine("info", "applying")>>, {"enabled"})

\* StationaryReturnsProcessor.make_stationary, config being
\* config.data_processor.make_stationary; the _diff columns are assigned on
\* the caller's table, the rows are dropped on a new one
make_stationary(data, method, config) ==
  IF ~config.enabled
    THEN StageOutcome(Return(TableValue(data, TRUE)), data, <<>>,
                      <<LogLine("info", "skipping")>>, {"enabled"})
  ELSE IF Lower(method) = StrDifference
    THEN LET widened == AddDiffs(data, NumericNames(data), 1)
         IN StageOutcome(Return(TableValue(DropNa(widened), FALSE)), widened, <<>>,
              <<LogLine("info", "applying"), LogLine("info", "head")>>, {"enabled"})
  ELSE StageOutcome(RaiseValueError("Unknown make_stationary method: ", method),
                    data, <<>>, <<LogLine("info", "applying")>>, {"enabled"})

\* what statsmodels' adfuller may do on one series: return a statistic and a
\* p-value (in hundredths), or raise
AdfRaises == [ok |-> FALSE, stat |-> 0, p |-> 0]

AdfResults == {[ok |-> TRUE, stat |-> -3, p |-> 1], [ok |-> TRUE, stat |-> -1, p |-> 5]}

AdfOutcomes == AdfResults \cup {AdfRaises}

\* data[column].isnull().any() or not np.isfinite(data[column]).all()
HasBadValue(col) ==
  (\E i \in 1..Len(col) : IsNa(col[i])) \/ ~(\A i \in 1..Len(col) : IsFinite(col[i]))

\* a mutant of SkipColumn: only missing values are looked for
SkipColumnNaOnly(col) == \E i \in 1..Len(col) : IsNa(col[i])

\* the test of line 302 that makes test_stationarity skip a column
SkipColumn(col) == HasBadValue(col)

ReportEntry(name, r) == [name |-> name, stat |-> r.stat, p |-> r.p]

RECURSIVE AdfLoop(_, _, _, _, _, _)
\* the loop of test_stationarity over numeric_columns from position j on;
\* adf[name] is what adfuller does on the column called name
AdfLoop(data, numeric, adf, j, results, lines) ==
  IF j > Len(numeric)
    THEN StageOutcome(Return([tag |-> "report", entries |-> results]), data, <<>>,
                      Append(lines, LogLine("info", "results")), {})
  ELSE LET col == data.cells[ColumnAt(data, numeric[j])]
       IN IF SkipColumn(col)
            THEN AdfLoop(data, numeric, adf, j + 1, results,
                         Append(lines, LogLine("warning", numeric[j])))
          ELSE IF ~adf[numeric[j]].ok
            THEN StageOutcome(
                   [kind |-> "raise",
                    value |-> [tag |-> "exception", type |-> "adfuller",
                               prefix |-> "", arg |-> numeric[j]]],
                   data, <<>>, lines, {})
          ELSE AdfLoop(data, numeric, adf, j + 1,
                       Append(results, ReportEntry(numeric[j], adf[numeric[j]])), lines)

\* StationaryReturnsProcessor.test_stationarity
test_stationarity(data, test, adf) ==
  IF Lower(test) # StrAdf
    THEN StageOutcome(RaiseValueError("Unsupported stationarity test: ", test),
                      data, <<>>, <<>>, {})
    ELSE AdfLoop(data, NumericNames(data), adf, 1, <<>>, <<LogLine("info", "test")>>)

\* a mutant of IsStationary: a p-value equal to the threshold counts
IsStationaryInclusive(p_value, p_value_threshold) == p_value <= p_value_threshold

\* the comparison of line 329
IsStationary(p_value, p_value_threshold) == p_value < p_value_threshold

Interpretation(entry, p_value_threshold) ==
  [level |-> "info",
   what |-> "interpretation",
   series_name |-> entry.name,
   adf_stat |-> entry.stat,
   p_value |-> entry.p,
   verdict |-> IF IsStationary(entry.p, p_value_threshold)
                 THEN "stationary" ELSE "non-stationary"]

\* StationaryReturnsProcessor.log_adf_results: one l.info per item of data
log_adf_results(data, p_value_threshold) ==
  StageOutcome(Return(NoValue), data, <<>>,
    [i \in 1..Len(data.entries) |-> Interpretation(data.entries[i], p_value_threshold)],
    {})

(***************************************************************************)
(* Specification of the stationarity operations: make_stationary or        *)
(* test_stationarity on a drawn table, log_adf_results on a report         *)
(***************************************************************************)
Methods == {StrDifference, Cased(StrDifference, {1}), Cased(StrDifference, 1..10),
            StrAdf}

Tests == {StrAdf, Cased(StrAdf, 1..3), StrDifference}

Thresholds == {1, 5, 10}

CallMakeStationary ==
  /\ pc = "ready"
  /\ \E enabled \in BOOLEAN, method \in Methods :
       LET config == [enabled |-> enabled]
       IN Finish("make_stationary",
                 [table |-> df, method |-> method, config |-> config],
                 make_stationary(df, method, config))

\* what adfuller would do is drawn for each column; where the code cannot
\* reach it (another test name, a column with a missing or non-finite value)
\* the one draw "raises" stands for all
CallTestStationarity ==
  /\ pc = "ready"
  /\ \E test \in Tests, adf \in [{ColA, ColB} -> AdfOutcomes] :
       /\ Lower(test) # StrAdf => \A c \in {ColA, ColB} : ~adf[c].ok
       /\ \A c \in {ColA, ColB} : HasBadValue(df.cells[ColumnAt(df, c)]) => ~adf[c].ok
       /\ Finish("test_stationarity", [table |-> df, test |-> test, adf |-> adf],
                 test_stationarity(df, test, adf))

\* the report of a test_stationarity call is handed to log_adf_results
CallLogAdfResults ==
  /\ pc = "returned"
  /\ op = "test_stationarity"
  /\ \E threshold \in Thresholds :
       Finish("log_adf_results",
              [report |-> result.value, p_value_threshold |-> threshold],
              log_adf_results(result.value, threshold))

NextStationary == CallMakeStationary \/ CallTestStationarity \/ CallLogAdfResults

SpecStationary == InitTable /\ [][NextStationary]_vars

\* a make_stationary call with the stage enabled and the method "difference"
\* in some letter case, on a table with at least one row
DifferenceCall ==
  /\ op = "make_stationary"
  /\ args.config.enabled
  /\ SameIgnoringCase(args.method, StrDifference)
  /\ NRows(args.table) >= 1

\* the position in the input of the row of the returned table at position i
InputRow(i) == CHOOSE t \in 1..NRows(args.table) : args.table.index[t] = Returned.index[i]

\* in every returned row, every numeric column c of the input has its c_diff
\* equal to c at that row minus c at the row before, and c itself unchanged
DiffValuesRight ==
  \A i \in 1..NRows(Returned) :
    /\ Returned.index[i] \in {args.table.index[t] : t \in 2..NRows(args.table)}
    /\ \A j \in NumericColumns(args.table) :
         LET c == args.table.columns[j]
             t == InputRow(i)
         IN /\ ColumnAt(Returned, DiffName(c)) # 0
            /\ Returned.cells[ColumnAt(Returned, DiffName(c))][i]
                 = Sub(args.table.cells[j][t], args.table.cells[j][t - 1])
            /\ Returned.cells[ColumnAt(Returned, c)][i] = args.table.cells[j][t]

OnlyFirstRowRemoved == Returned.index = Tail(args.table.index)

\* no cell of the table is missing and every numeric cell is finite
AllPresentAndFinite(t) ==
  \A j \in 1..NCols(t) : \A i \in 1..NRows(t) :
    /\ ~IsNa(t.cells[j][i])
    /\ j \in NumericColumns(t) => IsFinite(t.cells[j][i])

\* row t of the input, or the row before it, has a missing cell, or a
\* difference at row t is undefined (inf - inf)
RowLost(t) ==
  \/ t = 1
  \/ \E j \in 1..NCols(args.table) : IsNa(args.table.cells[j][t])
  \/ \E j \in NumericColumns(args.table) :
       IsNa(Sub(args.table.cells[j][t], args.table.cells[j][t - 1]))

\* C4 as stated: make_stationary("difference") removes exactly the first row
\* and c_diff[t] = c[t] - c[t-1] in every remaining row, also when the input
\* still contains missing values.
C4_ExactlyFirstRowRemoved ==
  DifferenceCall => (pc = "returned" /\ OnlyFirstRowRemoved /\ DiffValuesRight)

\* C4 as amended: on an input without missing or infinite values exactly the
\* first row is removed; in general the rows removed are the first row and
\* every row where a cell or a difference is missing, and in every remaining
\* row c_diff[t] = c[t] - c[t-1].
C4_DifferenceRows ==
  DifferenceCall =>
    /\ pc = "returned"
    /\ DiffValuesRight
    /\ AllPresentAndFinite(args.table) => OnlyFirstRowRemoved
    /\ {Returned.index[i] : i \in 1..NRows(Returned)}
         = {args.table.index[t] : t \in {u \in 1..NRows(args.table) : ~RowLost(u)}}

\* make_stationary differenced a three-row table without missing or infinite
\* values and returned its last two rows
C4_Witness ==
  /\ DifferenceCall
  /\ pc = "returned"
  /\ NRows(args.table) = 3
  /\ AllPresentAndFinite(args.table)
  /\ NRows(Returned) = 2
  /\ \E j \in NumericColumns(args.table) :
       args.table.cells[j][2] # args.table.cells[j][1]

\* a test_stationarity call with the test "adf" in some letter case
AdfCall == op = "test_stationarity" /\ SameIgnoringCase(args.test, StrAdf)

\* the numeric columns of the input without missing or non-finite value
CleanColumns ==
  {args.table.columns[j] : j \in
     {k \in NumericColumns(args.table) :
        \A i \in 1..NRows(args.table) :
          ~IsNa(args.table.cells[k][i]) /\ IsFinite(args.table.cells[k][i])}}

ReportKeys(report) == {report.entries[i].name : i \in 1..Len(report.entries)}

\* C7: the keys of the report test_stationarity("adf") returns are exactly the
\* numeric columns without missing or non-finite value; a column with such a
\* value is absent, and it neither makes the call fail (the call fails only
\* when adfuller itself raises on a clean column) nor drops another column.
C7_ReportKeys ==
  AdfCall =>
    /\ pc = "returned" =>
         /\ ReportKeys(result.value) = CleanColumns
         /\ Len(result.value.entries) = Cardinality(CleanColumns)
    /\ pc = "raised" => \E c \in CleanColumns : ~args.adf[c].ok
    /\ (\A c \in CleanColumns : args.adf[c].ok) => pc = "returned"

\* test_stationarity returned a report for one column while the other column
\* held an infinite value and adfuller would have raised on it
C7_Witness ==
  /\ AdfCall
  /\ pc = "returned"
  /\ CleanColumns = {ColB}
  /\ ReportKeys(result.value) = {ColB}
  /\ \E i \in 1..NRows(args.table) : args.table.cells[1][i] = PInf
  /\ \A i \in 1..NRows(args.table) : ~IsNa(args.table.cells[1][i])
  /\ ~args.adf[ColA].ok

\* C8: log_adf_results emits exactly one interpretation per report entry,
\* calls a column stationary iff its p-value is strictly below the threshold,
\* returns None and leaves the report as it was.
C8_StrictThreshold ==
  (op = "log_adf_results") =>
    /\ pc = "returned"
    /\ result = Return(NoValue)
    /\ df = args.report
    /\ Len(log) = Len(args.report.entries)
    /\ \A i \in 1..Len(log) :
         /\ log[i].series_name = args.report.entries[i].name
         /\ (log[i].verdict = "stationary")
              <=> (args.report.entries[i].p < args.p_value_threshold)
         /\ log[i].verdict \in {"stationary", "non-stationary"}

\* log_adf_results classified a p-value equal to the threshold as
\* non-stationary and a smaller one as stationary
C8_Witness ==
  /\ op = "log_adf_results"
  /\ pc = "returned"
  /\ Len(log) = 2
  /\ args.report.entries[1].p = args.p_value_threshold
  /\ log[1].verdict = "non-stationary"
  /\ args.report.entries[2].p < args.p_value_threshold
  /\ log[2].verdict = "stationary"

(***************************************************************************)
(* DataScaler.  A numeric cell Num(v) stands for v / Scale; quotients are  *)
(* kept to that resolution, truncated toward zero.                         *)
(***************************************************************************)
Scale == 10

Sign(n) == IF n > 0 THEN 1 ELSE IF n < 0 THEN -1 ELSE 0

Abs(n) == IF n < 0 THEN 0 - n ELSE n

\* float division x / y on cells
Div(x, y) ==
  IF x.k = "nan" \/ y.k = "nan" THEN NaN
  ELSE IF x.k = "inf" /\ y.k = "inf" THEN NaN
  ELSE IF x.k = "inf" THEN [k |-> "inf", v |-> IF y.v < 0 THEN 0 - x.v ELSE x.v]
  ELSE IF y.k = "inf" THEN Num(0)
  ELSE IF y.v = 0
    THEN (IF x.v = 0 THEN NaN ELSE [k |-> "inf", v |-> Sign(x.v)])
  ELSE Num(Sign(x.v) * Sign(y.v) * ((Abs(x.v) * Scale) \div Abs(y.v)))

\* x < y on non-missing cells
Less(x, y) ==
  IF x.k = "inf" THEN x.v < 0 /\ ~(y.k = "inf" /\ y.v < 0)
  ELSE IF y.k = "inf" THEN y.v > 0
  ELSE x.v < y.v

Valid(col) == {i \in 1..Len(col) : ~IsNa(col[i])}

\* Series.min() and Series.max(): missing cells are skipped
ColMin(col) ==
  IF Valid(col) = {} THEN NaN
  ELSE col[CHOOSE i \in Valid(col) : \A k \in Valid(col) : ~Less(col[k], col[i])]

ColMax(col) ==
  IF Valid(col) = {} THEN NaN
  ELSE col[CHOOSE i \in Valid(col) : \A k \in Valid(col) : ~Less(col[i], col[k])]

\* (data[column] - min) / (max - min)
MinMaxColumn(col) ==
  [i \in 1..Len(col) |->
     Div(Sub(col[i], ColMin(col)), Sub(ColMax(col), ColMin(col)))]

RECURSIVE SumOver(_, _)
SumOver(f, S) ==
  IF S = {} THEN 0
  ELSE LET i == CHOOSE k \in S : TRUE IN f[i] + SumOver(f, S \ {i})

\* the integer square root
ISqrt(n) == CHOOSE r \in 0..(Scale * (MaxRows + 2)) : r * r <= n /\ n < (r + 1) * (r + 1)

\* (data[column] - mean) / std with the sample standard deviation (ddof=1),
\* missing cells skipped by mean() and std().  With n valid cells of sum S,
\* n*(x - mean) = n*x - S and n*std = sqrt(SS / (n - 1)), SS the sum of the
\* squares of the n*x - S.  An infinite cell makes std NaN, one valid cell
\* makes it NaN (0/0), equal cells make it 0.
StandardizeColumn(col) ==
  LET valid == Valid(col)
      n == Cardinality(valid)
  IN IF \E i \in valid : col[i].k = "inf" THEN [i \in 1..Len(col) |-> NaN]
     ELSE IF n < 2 THEN [i \in 1..Len(col) |-> NaN]
     ELSE LET S == SumOver([i \in 1..Len(col) |-> col[i].v], valid)
              dev == [i \in 1..Len(col) |-> n * col[i].v - S]
              SS == SumOver([i \in 1..Len(col) |-> dev[i] * dev[i]], valid)
          IN [i \in 1..Len(col) |->
                IF IsNa(col[i]) THEN NaN
                ELSE IF SS = 0 THEN NaN
                ELSE Num(Sign(dev[i])
                         * ISqrt((dev[i] * dev[i] * Scale * Scale * (n - 1)) \div SS))]

RECURSIVE ScaleColumns(_, _, _, _)
\* the loop over numeric_columns, assigning each scaled column in place
ScaleColumns(t, numeric, j, minmax) ==
  IF j > Len(numeric) THEN t
  ELSE LET col == t.cells[ColumnAt(t, numeric[j])]
       IN ScaleColumns(
            SetColumn(t, numeric[j],
                      IF minmax THEN MinMaxColumn(col) ELSE StandardizeColumn(col)),
            numeric, j + 1, minmax)

\* DataScaler.scale_data_standardize: the caller's table is changed and returned
scale_data_standardize(data) ==
  LET scaled == ScaleColumns(data, NumericNames(data), 1, FALSE)
  IN StageOutcome(Return(TableValue(scaled, TRUE)), scaled, <<>>,
       <<LogLine("info", "scaling"), LogLine("info", "df scaled:"),
         LogLine("info", "head")>>, {})

\* DataScaler.scale_data_minmax: the caller's table is changed and returned
scale_data_minmax(data) ==
  LET scaled == ScaleColumns(data, NumericNames(data), 1, TRUE)
  IN StageOutcome(Return(TableValue(scaled, TRUE)), scaled, <<>>,
       <<LogLine("info", "scaling"), LogLine("info", "df scaled:"),
         LogLine("info", "head")>>, {})

\* the call of a bound method DataScalerFactory returned
CallScaler(m, data) ==
  CASE m.name = "scale_data_standardize" -> scale_data_standardize(data)
    [] m.name = "scale_data_minmax" -> scale_data_minmax(data)

\* scale_data(df, config), config being config.data_processor.scaling: the
\* function reads config...scaling.method and no other field
scale_data(table, config) ==
  LET made == ScalerCreateHandler(config.method)
  IN IF made.res.kind = "raise"
       THEN StageOutcome(made.res, table, made.created,
                         <<LogLine("info", "processing")>> \o made.log, {"method"})
       ELSE LET done == CallScaler(made.res.value, table)
            IN StageOutcome(done.res, done.data, made.created,
                 <<LogLine("info", "processing")>> \o made.log \o done.log,
                 {"method"})

(***************************************************************************)
(* Specification of the scaling stage: one call on a drawn table           *)
(***************************************************************************)
ScalingMethods == {StrStandardize, StrMinmax, Cased(StrMinmax, {1}), StrDrop}

CallScaleStandardize ==
  /\ pc = "ready"
  /\ Finish("scale_data_standardize", args, scale_data_standardize(df))

CallScaleMinmax ==
  /\ pc = "ready"
  /\ Finish("scale_data_minmax", args, scale_data_minmax(df))

CallScaleData ==
  /\ pc = "ready"
  /\ \E enabled \in BOOLEAN, method \in ScalingMethods :
       LET config == [enabled |-> enabled, method |-> method]
       IN Finish("scale_data", [table |-> df, config |-> config],
                 scale_data(df, config))

NextScale == CallScaleStandardize \/ CallScaleMinmax \/ CallScaleData

SpecScale == InitTable /\ [][NextScale]_vars

\* C10 as stated: with the scaling flag false, scale_data returns the input
\* table with every cell unchanged and resolves no scaler.
C10_ScalingSkippedWhenDisabled ==
  (op = "scale_data" /\ ~args.config.enabled) =>
    /\ pc = "returned"
    /\ Returned = args.table
    /\ df = args.table
    /\ created = <<>>

(***************************************************************************)
(* PriceSeriesGenerator.  Dates are day numbers, day 0 a Monday; a price   *)
(* Num(v) stands for v hundred-thousandths, so that round(4) is visible.   *)
(***************************************************************************)
MaxDay == 6

\* a mutant of IsBusinessDay: every calendar day counts (freq="D")
IsCalendarDay(d) == TRUE

\* freq="B": Monday to Friday
IsBusinessDay(d) == d % 7 < 5

\* pd.date_range(start=start_date, end=end_date, freq="B")
BusinessDays(start, end) ==
  LET keep == PositionsWhere(
                [i \in 1..(end - start + 1) |-> IsBusinessDay(start + i - 1)],
                1, end - start + 1)
  IN [i \in 1..Len(keep) |-> start + keep[i] - 1]

\* PriceSeriesGenerator.__init__
GeneratorInit(start_date, end_date) ==
  [start_date |-> start_date, end_date |-> end_date,
   dates |-> BusinessDays(start_date, end_date)]

\* prices = [initial_price]; for _ in range(1, len(self.dates)):
\* prices.append(prices[-1] + change), the changes being gauss[offset + 1..]
RandomWalk(initial_price, ndates, gauss, offset) ==
  LET steps == IF ndates >= 1 THEN ndates - 1 ELSE 0
  IN [i \in 1..(steps + 1) |->
        initial_price + SumOver([k \in 1..steps |-> gauss[offset + k]], 1..(i - 1))]

\* the random.gauss draws one ticker consumes
DrawsPerTicker(ndates) == IF ndates >= 1 THEN ndates - 1 ELSE 0

\* round(4) of v hundred-thousandths: to the nearest ten, ties to even
Round4(v) ==
  LET q == v \div 10
      r == v % 10
  IN IF r < 5 THEN 10 * q
     ELSE IF r > 5 THEN 10 * (q + 1)
     ELSE IF q % 2 = 0 THEN 10 * q ELSE 10 * (q + 1)

\* PriceSeriesGenerator.generate_prices; ticker_initial_prices is the
\* sequence of the mapping's items, gauss the random.gauss draws in order.
\* pd.DataFrame(data, index=self.dates) raises ValueError when a list's length
\* differs from the index's.
generate_prices(self, ticker_initial_prices, gauss) ==
  LET n == Len(self.dates)
      data == [j \in 1..Len(ticker_initial_prices) |->
                 [ticker |-> ticker_initial_prices[j].ticker,
                  prices |-> RandomWalk(ticker_initial_prices[j].price, n, gauss,
                                        (j - 1) * DrawsPerTicker(n))]]
      frame == Table(self.dates,
                 [j \in 1..Len(data) |-> data[j].ticker],
                 [j \in 1..Len(data) |-> "float64"],
                 [j \in 1..Len(data) |->
                    [i \in 1..n |-> Num(Round4(data[j].prices[i]))]])
  IN IF \E j \in 1..Len(data) : Len(data[j].prices) # n
       THEN StageOutcome(
              [kind |-> "raise",
               value |-> [tag |-> "exception", type |-> "ValueError",
                          prefix |-> "Length of values does not match length of index",
                          arg |-> <<>>]],
              NoTable, <<>>, <<LogLine("info", "generating")>>, {})
       ELSE StageOutcome(
              Return([tag |-> "prices", data |-> data, df |-> frame]),
              NoTable, <<>>, <<LogLine("info", "generating")>>, {})

(***************************************************************************)
(* Specification of the generator: one generator over a drawn date range,  *)
(* one generate_prices call                                                *)
(***************************************************************************)
TickerGM == <<"GM">>

TickerLM == <<"LM">>

\* initial prices: 51.1, 2.2 and 1.23456
InitialPrices == {5110000, 220000, 123456}

\* the changes random.gauss may yield: -0.00003 and 0.00014
Changes == {-3, 14}

TickerMappings ==
  {<<>>}
    \cup {<<[ticker |-> TickerGM, price |-> p]>> : p \in InitialPrices}
    \cup {<<[ticker |-> TickerGM, price |-> p], [ticker |-> TickerLM, price |-> q]>>
            : p \in InitialPrices, q \in {220000, 123456}}

InitGenerator ==
  /\ pc = "ready"
  /\ op = "none"
  /\ \E start \in 0..MaxDay, end \in 0..MaxDay, m \in TickerMappings :
       args = [generator |-> GeneratorInit(start, end), ticker_initial_prices |-> m]
  /\ df = NoTable
  /\ result = NoResult
  /\ created = <<>>
  /\ log = <<>>
  /\ reads = {}
  /\ run = NoRun

CallGeneratePrices ==
  /\ pc = "ready"
  /\ LET needed == Len(args.ticker_initial_prices)
                     * DrawsPerTicker(Len(args.generator.dates))
     IN \E gauss \in [1..needed -> Changes] :
          Finish("generate_prices",
                 [generator |-> args.generator,
                  ticker_initial_prices |-> args.ticker_initial_prices,
                  gauss |-> gauss],
                 generate_prices(args.generator, args.ticker_initial_prices, gauss))

NextGenerator == CallGeneratePrices

SpecGenerator == InitGenerator /\ [][NextGenerator]_vars

\* the weekdays Monday to Friday between the generator's start and end date
RangeBusinessDays ==
  {d \in args.generator.start_date..args.generator.end_date : d % 7 \in 0..4}

Tickers ==
  {args.ticker_initial_prices[j].ticker : j \in 1..Len(args.ticker_initial_prices)}

\* the mapping and the table have exactly one series per ticker, the table
\* is indexed on exactly the business days of the range, in order, and every
\* series has one value per business day
PricesShape ==
  LET data == result.value.data
      frame == result.value.df
  IN /\ {data[j].ticker : j \in 1..Len(data)} = Tickers
     /\ Len(data) = Cardinality(Tickers)
     /\ {frame.columns[j] : j \in 1..NCols(frame)} = Tickers
     /\ NCols(frame) = Cardinality(Tickers)
     /\ {frame.index[i] : i \in 1..NRows(frame)} = RangeBusinessDays
     /\ NRows(frame) = Cardinality(RangeBusinessDays)
     /\ \A i \in 1..(NRows(frame) - 1) : frame.index[i] < frame.index[i + 1]
     /\ \A j \in 1..Len(data) : Len(data[j].prices) = Cardinality(RangeBusinessDays)
     /\ \A j \in 1..NCols(frame) : Len(frame.cells[j]) = Cardinality(RangeBusinessDays)

\* the first value of ticker j's series in the returned table
FirstInTable(j) ==
  result.value.df.cells[ColumnAt(result.value.df, args.ticker_initial_prices[j].ticker)][1]

\* C9 as stated: for every date range and every mapping, generate_prices
\* returns one series per ticker over exactly the business days of the range,
\* each series' first value being the ticker's initial price.
C9_FirstRowIsInitialPrice ==
  (op = "generate_prices") =>
    /\ pc = "returned"
    /\ PricesShape
    /\ \A j \in 1..Len(args.ticker_initial_prices) :
         FirstInTable(j) = Num(args.ticker_initial_prices[j].price)

\* C9 as amended: when the range holds a business day (or the mapping is
\* empty) the shape is as stated, the mapping's series start at the initial
\* price and the table's at the initial price rounded to 4 decimals; with a
\* ticker and no business day in the range the call raises.
C9_FirstRowIsRoundedInitialPrice ==
  (op = "generate_prices") =>
    IF RangeBusinessDays = {} /\ Tickers # {}
      THEN pc = "raised"
      ELSE /\ pc = "returned"
           /\ PricesShape
           /\ RangeBusinessDays # {} =>
                \A j \in 1..Len(args.ticker_initial_prices) :
                  LET p == args.ticker_initial_prices[j].price
                  IN /\ result.value.data[j].prices[1] = p
                     /\ FirstInTable(j).k = "num"
                     /\ FirstInTable(j).v % 10 = 0
                     /\ FirstInTable(j).v - p \in -5..5

\* generate_prices returned two series over a range with a weekend in it, the
\* table's first price being the initial price rounded
C9_Witness ==
  /\ op = "generate_prices"
  /\ pc = "returned"
  /\ Len(args.ticker_initial_prices) = 2
  /\ args.generator.start_date = 3
  /\ args.generator.end_date = 6
  /\ NRows(result.value.df) = 2
  /\ args.ticker_initial_prices[2].price = 123456
  /\ FirstInTable(2) = Num(123460)

(***************************************************************************)
(* run_pipeline.py: the module body, one stage per step, inside try/except *)
(***************************************************************************)
\* the parameters StationaryReturnsProcessor.make_stationary requires
MakeStationaryParams == {"data", "method", "config"}

\* the methods class StationaryReturnsProcessor defines
ProcessorMethods == {"make_stationary", "test_stationarity", "log_adf_results"}

RaiseError(type, prefix, arg) ==
  [kind |-> "raise",
   value |-> [tag |-> "exception", type |-> type, prefix |-> prefix, arg |-> arg]]

\* Python's call of obj.name(**supplied): AttributeError when the class has
\* no such method, TypeError when a required parameter is not supplied
CallCheck(name, required, supplied) ==
  IF name \notin ProcessorMethods
    THEN RaiseError("AttributeError", "object has no attribute ", <<name>>)
  ELSE IF required \ supplied # {}
    THEN RaiseError("TypeError", "missing required positional argument: ",
                    <<CHOOSE x \in required \ supplied : TRUE>>)
  ELSE Return(NoValue)

\* the stages of the module body, in program order
StageOrder ==
  <<"load", "generate", "missing", "scale", "make_stationary",
    "check_stationarity", "log_results", "arima", "garch">>

StageAfter(stage) ==
  LET i == CHOOSE k \in 1..Len(StageOrder) : StageOrder[k] = stage
  IN IF i = Len(StageOrder) THEN "done" ELSE StageOrder[i + 1]

\* the locals of the module body before it runs
NewRun(config) ==
  [config |-> config, trace |-> <<>>, price_df |-> NoTable, filled_df |-> NoTable,
   scaled_df |-> NoTable, diffed_df |-> NoTable, adf_results |-> <<>>,
   models |-> <<>>, failed_at |-> "none", errors_logged |-> 0, reraised |-> FALSE]

\* a stage ended: normally with the locals it assigned, or with an exception
Ran(r, stage) == [r EXCEPT !.trace = Append(@, stage)]

Failed(r, stage) == [r EXCEPT !.trace = Append(@, stage), !.failed_at = stage]

\* lines 30-34: the handler is resolved and applied to price_df; the module
\* looks at no enable flag
MissingStage(r) ==
  LET made == MissingCreateHandler(r.config.missing_strategy)
  IN IF made.res.kind = "raise" THEN [run |-> Failed(r, "missing"), res |-> made.res]
     ELSE LET done == CallMethod(made.res.value, r.price_df)
          IN [run |-> [Ran(r, "missing") EXCEPT !.filled_df = done.res.value.table,
                                                !.price_df = done.data],
              res |-> done.res]

\* lines 36-40: the scaler is resolved and applied to filled_df, which it
\* changes in place; the module looks at no enable flag
ScaleStage(r) ==
  LET made == ScalerCreateHandler(r.config.scaler_method)
  IN IF made.res.kind = "raise" THEN [run |-> Failed(r, "scale"), res |-> made.res]
     ELSE LET done == CallScaler(made.res.value, r.filled_df)
          IN [run |-> [Ran(r, "scale") EXCEPT !.scaled_df = done.res.value.table,
                                              !.filled_df = done.data],
              res |-> done.res]

\* lines 42-47: make_stationary(data=scaled_df, method=...) without config
MakeStationaryStage(r) ==
  LET bound == CallCheck("make_stationary", MakeStationaryParams, {"data", "method"})
  IN IF bound.kind = "raise"
       THEN [run |-> Failed(r, "make_stationary"), res |-> bound]
       ELSE LET done == make_stationary(r.scaled_df, r.config.stationarity_method,
                                        [enabled |-> TRUE])
            IN IF done.res.kind = "raise"
                 THEN [run |-> Failed(r, "make_stationary"), res |-> done.res]
                 ELSE [run |-> [Ran(r, "make_stationary")
                                  EXCEPT !.diffed_df = done.res.value.table,
                                         !.scaled_df = done.data],
                       res |-> done.res]

\* lines 49-53: stationary_returns_processor.check_stationarity(...)
CheckStationarityStage(r) ==
  LET bound == CallCheck("check_stationarity", {"data", "test"}, {"data", "test"})
  IN IF bound.kind = "raise"
       THEN [run |-> Failed(r, "check_stationarity"), res |-> bound]
       ELSE [run |-> Ran(r, "check_stationarity"), res |-> bound]

\* lines 54-57
LogResultsStage(r) ==
  [run |-> Ran(r, "log_results"),
   res |-> log_adf_results([tag |-> "report", entries |-> r.adf_results],
                           r.config.p_value_threshold).res]

\* lines 61-78: ModelFactory.create_model("ARIMA", data=diffed_df, ...), fit,
\* summary, forecast
ArimaStage(r) ==
  [run |-> IF r.config.arima_run
             THEN [Ran(r, "arima") EXCEPT !.models =
                     Append(@, [model_type |-> "ARIMA", data |-> r.diffed_df,
                                fitted |-> TRUE, forecast |-> TRUE])]
             ELSE Ran(r, "arima"),
   res |-> Return(NoValue)]

\* lines 80-90: ModelFactory.create_model("GARCH", data=diffed_df, ...)
GarchStage(r) ==
  [run |-> IF r.config.garch_run
             THEN [Ran(r, "garch") EXCEPT !.models =
                     Append(@, [model_type |-> "GARCH", data |-> r.diffed_df,
                                fitted |-> FALSE, forecast |-> FALSE])]
             ELSE Ran(r, "garch"),
   res |-> Return(NoValue)]

\* lines 21-28: the generator over the configured range and its prices
GenerateStage(r, gauss) ==
  LET done == generate_prices(GeneratorInit(r.config.start_date, r.config.end_date),
                              r.config.ticker_initial_prices, gauss)
  IN IF done.res.kind = "raise"
       THEN [run |-> Failed(r, "generate"), res |-> done.res]
       ELSE [run |-> [Ran(r, "generate") EXCEPT !.price_df = done.res.value.df],
             res |-> done.res]

\* the statement(s) of one stage
StageEffect(stage, r, gauss) ==
  CASE stage = "load" -> [run |-> Ran(r, "load"), res |-> Return(NoValue)]
    [] stage = "generate" -> GenerateStage(r, gauss)
    [] stage = "missing" -> MissingStage(r)
    [] stage = "scale" -> ScaleStage(r)
    [] stage = "make_stationary" -> MakeStationaryStage(r)
    [] stage = "check_stationarity" -> CheckStationarityStage(r)
    [] stage = "log_results" -> LogResultsStage(r)
    [] stage = "arima" -> ArimaStage(r)
    [] stage = "garch" -> GarchStage(r)

\* a mutant of ExceptHandler: the error is logged and swallowed
ExceptHandlerSwallow(r) == [r EXCEPT !.errors_logged = @ + 1]

\* lines 99-101: l.exception(...); raise
ExceptHandler(r) == [r EXCEPT !.errors_logged = @ + 1, !.reraised = TRUE]

(***************************************************************************)
(* Specification of the orchestrator: one run over a drawn configuration   *)
(***************************************************************************)
PipelineMappings ==
  {<<[ticker |-> TickerGM, price |-> 5110000]>>,
   <<[ticker |-> TickerGM, price |-> 5110000], [ticker |-> TickerLM, price |-> 220000]>>}

Configs ==
  [start_date : {0}, end_date : {-1, 1, 2},
   ticker_initial_prices : PipelineMappings,
   missing_strategy : {StrDrop, StrForwardFill, StrMinmax},
   scaler_method : {StrStandardize, StrMinmax, StrDrop},
   stationarity_method : {StrDifference, StrAdf},
   p_value_threshold : {5},
   arima_run : BOOLEAN, garch_run : {TRUE}]

InitPipeline ==
  /\ pc = "load"
  /\ op = "run_pipeline"
  /\ args = [config_file |-> "config.yml"]
  /\ df = NoTable
  /\ result = NoResult
  /\ created = <<>>
  /\ log = <<>>
  /\ reads = {}
  /\ \E config \in Configs : run = NewRun(config)

\* the next stage of the try block runs; an exception transfers to except
PipelineStage ==
  /\ pc \in {StageOrder[i] : i \in 1..Len(StageOrder)}
  /\ LET needed == IF pc = "generate"
                     THEN Len(run.config.ticker_initial_prices)
                            * DrawsPerTicker(Len(BusinessDays(run.config.start_date,
                                                              run.config.end_date)))
                     ELSE 0
     IN \E gauss \in [1..needed -> Changes] :
          LET out == StageEffect(pc, run, gauss)
          IN /\ run' = out.run
             /\ result' = out.res
             /\ pc' = IF out.res.kind = "raise" THEN "except" ELSE StageAfter(pc)
  /\ UNCHANGED <<op, args, df, created, log, reads>>

\* the except clause: the error is logged and raised again
PipelineExcept ==
  /\ pc = "except"
  /\ run' = ExceptHandler(run)
  /\ log' = Append(log, LogLine("exception", "Error in pipeline"))
  /\ pc' = "failed"
  /\ UNCHANGED <<op, args, df, result, created, reads>>

NextPipeline == PipelineStage \/ PipelineExcept

SpecPipeline == InitPipeline /\ [][NextPipeline]_vars

\* a configuration with known strategy names and a range with a business day
WellFormed(config) ==
  /\ IsEnumerated("MissingDataHandlerFactory", config.missing_strategy)
  /\ IsEnumerated("DataScalerFactory", config.scaler_method)
  /\ SameIgnoringCase(config.stationarity_method, StrDifference)
  /\ \E d \in config.start_date..config.end_date : d % 7 \in 0..4

\* the stages run so far are the first ones of the program order
TraceInOrder ==
  /\ Len(run.trace) <= Len(StageOrder)
  /\ \A i \in 1..Len(run.trace) : run.trace[i] = StageOrder[i]

\* C2 as stated: a run started with a well-formed configuration executes the
\* stages in order, none of them fails, so that the run goes on to the
\* modeling step, and a model is created only after log_results, on the table
\* make_stationary returned.
C2_WellFormedRunReachesModeling ==
  (op = "run_pipeline" /\ WellFormed(run.config)) =>
    /\ TraceInOrder
    /\ pc \notin {"except", "failed"}
    /\ \A i \in 1..Len(run.models) :
         /\ \E k \in 1..Len(run.trace) : run.trace[k] = "log_results"
         /\ run.models[i].data = run.diffed_df

\* C3: when a stage raises, the except clause logs the error once and raises
\* it again, no later stage runs and no model exists in that run.
C3_FailedRunStopsAndReraises ==
  (op = "run_pipeline") =>
    /\ (pc \in {"except", "failed"}) <=> (run.failed_at # "none")
    /\ run.failed_at # "none" =>
         /\ TraceInOrder
         /\ run.trace[Len(run.trace)] = run.failed_at
         /\ run.models = <<>>
         /\ result.kind = "raise"
    /\ pc = "except" => (run.errors_logged = 0 /\ ~run.reraised)
    /\ pc = "failed" =>
         /\ run.errors_logged = 1
         /\ run.reraised
         /\ Cardinality({i \in 1..Len(log) : log[i].level = "exception"}) = 1
    /\ result.kind = "raise" => pc \in {"except", "failed"}

\* the scaling stage raised on an unknown method: the run ended there, the
\* error logged once and raised again
C3_Witness ==
  /\ op = "run_pipeline"
  /\ pc = "failed"
  /\ run.failed_at = "scale"
  /\ run.trace = <<"load", "generate", "missing", "scale">>
  /\ run.errors_logged = 1
  /\ run.reraised
  /\ run.models = <<>>

\* C11 as stated: after any make_stationary call (enabled or not, returning
\* or raising) the table the caller passed has the columns, rows and cells it
\* had before the call; the _diff columns are in the returned table only.
C11_InputTableUnchanged ==
  (op = "make_stationary") => df = args.table

\* a make_stationary call whose method is not "difference" in any letter case
UnknownMethodCall ==
  op = "make_stationary" /\ ~SameIgnoringCase(args.method, StrDifference)

\* C12 as stated: make_stationary with a method other than "difference" fails
\* with an error and returns no table, under every configuration, the one
\* with make_stationary.enabled false included.
C12_UnknownMethodAlwaysFails ==
  UnknownMethodCall => (pc = "raised" /\ result.kind = "raise")

\* C12 as amended: with the stage enabled, a method other than "difference"
\* ends in a ValueError naming the method, no table is returned and the
\* caller's table is untouched; with the stage disabled the method is not
\* looked at and the input table is returned as it is.
C12_UnknownMethodFailsWhenEnabled ==
  UnknownMethodCall =>
    IF args.config.enabled
      THEN /\ pc = "raised"
           /\ result.kind = "raise"
           /\ result.value.type = "ValueError"
           /\ result.value.arg = args.method
           /\ df = args.table
      ELSE /\ pc = "returned"
           /\ result.value.same
           /\ Returned = args.table
           /\ df = args.table

\* make_stationary, enabled, was given the method "adf" on a table with rows
\* and raised an error carrying that method
C12_Witness ==
  /\ UnknownMethodCall
  /\ args.config.enabled
  /\ args.method = StrAdf
  /\ NRows(args.table) = 2
  /\ pc = "raised"
  /\ result.value.arg = StrAdf

\* a column of finite cells that are all equal: zero variance, zero range
\* (a single row included)
Degenerate(col) ==
  /\ Len(col) >= 1
  /\ \A i \in 1..Len(col) : IsFinite(col[i]) /\ col[i] = col[1]

ScalingCall ==
  \/ op \in {"scale_data_standardize", "scale_data_minmax"}
  \/ op = "scale_data" /\ IsEnumerated("DataScalerFactory", args.config.method)

\* C13 as stated: scaling a table with a numeric column of zero variance
\* (standardize) or zero range (minmax) never silently yields non-finite
\* values: the call raises, or warns, or leaves that column unscaled.
C13_DegenerateColumnGuarded ==
  ScalingCall =>
    \A j \in NumericColumns(args.table) :
      Degenerate(args.table.cells[j]) =>
        \/ pc = "raised"
        \/ \E i \in 1..Len(log) : log[i].level \in {"warning", "error"}
        \/ /\ Returned.cells[j] = args.table.cells[j]
           /\ \A i \in 1..NRows(Returned) : IsFinite(Returned.cells[j][i])

====
